---- MODULE Spec2Model ----
(***************************************************************************)
(* Ledger and recurrence engine of the budget bot (src/main.py).           *)
(*                                                                         *)
(* The store is the SQLite database: the tables wallets, transactions,     *)
(* holds, recurring and user_settings.  Every handler opens its own        *)
(* connection with `with get_db_connection() as conn`, and runs without    *)
(* suspension between its first read and its commit, so a handler is one   *)
(* step over the committed store.  Money is counted in cents (an amount    *)
(* of 1.00 is 100); NULL wallet ids are 0 (SQLite row ids start at 1).     *)
(***************************************************************************)
EXTENDS Integers, Sequences, FiniteSets, TLC

\* ---- bounds of the model ------------------------------------------------
NumUsers == 2
MaxWallets == 2
MaxTx == 3
MaxHolds == 1
MaxRules == 2
MaxLines == 1
MaxDeletes == 1
MaxConv == 4
MaxBudgets == 3
MaxMonths == 2

Users == 1..NumUsers

\* the user whose commands the slices explore; the other users register and
\* own wallets
Callers == {1}

\* CURRENCIES (two of the six codes) and a code that is not in the table
Currencies == {"USD", "EUR"}
CurrencyInputs == Currencies \cup {"XXX"}

\* the codes a wallet can have: those of the slices, CHF, and RUB, a code
\* that the rate table answered by the lookup does not carry
CURRENCIES == Currencies \cup {"CHF", "RUB"}

\* amounts a user can type, in cents
Amounts == {0, 100}

\* day_of_month inputs (0 is out of the 1..31 range)
Days == {1, 15}
DayInputs == Days \cup {0}

\* descriptions and the tag buttons of add_tag_prompt
Descriptions == {"Rent"}
Tags == {"REFUND", "SELL"}

HoldActions == {"income", "outcome"}
RuleTypes == {"income", "outcome"}

\* CATEGORIES (two of the seven names) and the amounts typed for a budget
Categories == {"Food", "Other"}
BudgetAmounts == {0, 100, 200}

NoRow == "none"

VARIABLES
    wallets,        \* table wallets: sequence, row id = index
    transactions,   \* table transactions: set of rows
    holds,          \* table holds: set of rows
    recurring,      \* table recurring: set of rows
    user_settings,  \* table user_settings: user -> default currency or NoRow
    user_data,      \* context.user_data['transfer'] of each user
    deletes,        \* number of transaction rows deleted so far
    budgets,        \* table budgets: set of rows
    now,            \* the month of datetime.now(), counted from the first one
    pending,        \* the user whose handler awaits with uncommitted writes (0: none)
    last            \* the handler that ran last and how it ended

vars == <<wallets, transactions, holds, recurring, user_settings, user_data, deletes,
          budgets, now, pending, last>>

\* ---- helpers ---------------------------------------------------------------

Max(S) == CHOOSE x \in S : \A y \in S : y <= x

\* INTEGER PRIMARY KEY without AUTOINCREMENT: the new row id is max(id) + 1
RowId(table) == IF table = {} THEN 1 ELSE Max({r.id : r \in table}) + 1

RECURSIVE SumAmounts(_)
SumAmounts(S) ==
    IF S = {} THEN 0
    ELSE LET r == CHOOSE x \in S : TRUE
         IN r.amount + SumAmounts(S \ {r})

WalletIds == 1..Len(wallets)
WalletExists(w) == w \in WalletIds

\* rates of the lookup, relative to USD, as fractions: EUR = 0.90, CHF = 0.70
RateNum == [c \in Currencies \cup {"CHF"} |->
               IF c = "USD" THEN 1 ELSE IF c = "EUR" THEN 9 ELSE 7]
RateDen == [c \in Currencies \cup {"CHF"} |-> IF c = "USD" THEN 1 ELSE 10]

\* round(n / d) to the nearest cent, ties to even (Python's round). On an exact
\* tie of the decimal value the binary float decides; the amounts of the
\* slices make no tie.
RoundDown(n, d) == n \div d

RoundHalfEven(n, d) ==
    LET q == n \div d
        r == n % d
    IN  IF 2 * r < d THEN q
        ELSE IF 2 * r > d THEN q + 1
        ELSE IF q % 2 = 0 THEN q ELSE q + 1

\* the codes the rate table of the lookup carries
Rated(c) == c \in DOMAIN RateNum

\* the rate source is asked only when the two codes differ
RateLookupAlways(from_curr, to_curr) == TRUE

RateLookupMade(from_curr, to_curr) == from_curr # to_curr

\* convert_currency; ok = FALSE is a failed request or a malformed response.
\* The except branch returns the local `amount`, which the first step has
\* already rebound when the second lookup fails (whole cents are kept).
convert_currency(amount, from_curr, to_curr, ok) ==
    IF ~RateLookupMade(from_curr, to_curr) THEN amount
    ELSE IF ~ok THEN amount
    ELSE IF from_curr # "USD" /\ ~Rated(from_curr) THEN amount
    ELSE LET n1 == IF from_curr # "USD" THEN amount * RateDen[from_curr] ELSE amount
             d1 == IF from_curr # "USD" THEN RateNum[from_curr] ELSE 1
         IN  IF to_curr # "USD" /\ ~Rated(to_curr) THEN n1 \div d1
             ELSE LET n2 == IF to_curr # "USD" THEN n1 * RateNum[to_curr] ELSE n1
                      d2 == IF to_curr # "USD" THEN d1 * RateDen[to_curr] ELSE d1
                  IN  RoundHalfEven(n2, d2)

get_user_currency(u) ==
    IF user_settings[u] = NoRow THEN "USD" ELSE user_settings[u]

get_default_wallet(u) ==
    LET ds == {w \in WalletIds : wallets[w].user_id = u /\ wallets[w].is_default = 1}
    IN  IF ds = {} THEN 0 ELSE CHOOSE w \in ds : \A x \in ds : w <= x

\* UPDATE wallets SET balance = balance + delta WHERE id = w
AddBalance(ws, w, delta) ==
    [i \in 1..Len(ws) |->
        IF i = w THEN [ws[i] EXCEPT !.balance = @ + delta] ELSE ws[i]]

\* INSERT INTO transactions
TxRow(table, u, type, amount, currency, w) ==
    [id |-> RowId(table), user_id |-> u, type |-> type, amount |-> amount,
     currency |-> currency, wallet_id |-> w, category_id |-> NoRow, month |-> now]

\* Connection.__exit__ of `with get_db_connection() as conn`: commit when the
\* block ends normally, roll back when it ends with an exception
ConnExitKeepsPartial(committed, working, raised) == working

ConnExit(committed, working, raised) ==
    IF raised THEN committed ELSE working

\* the conversation is entered with /start only
Started(u) == user_settings[u] # NoRow

\* room for k more rows: row ids stay within the bound of the table
TxRoom(k) == RowId(transactions) + k - 1 <= MaxTx
HoldRoom(k) == RowId(holds) + k - 1 <= MaxHolds
RuleRoom == RowId(recurring) <= MaxRules

NoTransfer ==
    [from |-> 0, to |-> 0, from_currency |-> "", to_currency |-> "", from_balance |-> 0]

Done(op, res) == last' = [op |-> op, res |-> res]

\* ---- initial state -------------------------------------------------------------

Init ==
    /\ wallets = <<>>
    /\ transactions = {}
    /\ holds = {}
    /\ recurring = {}
    /\ user_settings = [u \in Users |-> NoRow]
    /\ user_data = [u \in Users |-> NoTransfer]
    /\ deletes = 0
    /\ budgets = {}
    /\ now = 1
    /\ pending = 0
    /\ last = [op |-> "init", res |-> "ok"]

\* ---- settings and wallets ----------------------------------------------------

\* if not user_exists: INSERT INTO user_settings (user_id, default_currency)
\* VALUES (?, 'USD')
ResetSettings(u) == [user_settings EXCEPT ![u] = "USD"]

InsertSettings(u) ==
    IF user_settings[u] = NoRow
    THEN [user_settings EXCEPT ![u] = "USD"]
    ELSE user_settings

start(u) ==
    /\ user_settings' = InsertSettings(u)
    /\ Done("start", "ok")
    /\ UNCHANGED <<wallets, transactions, holds, recurring, user_data, deletes, budgets, now, pending>>

set_currency(u, c) ==
    /\ Started(u)
    /\ user_settings' = [user_settings EXCEPT ![u] = c]
    /\ Done("set_currency", "ok")
    /\ UNCHANGED <<wallets, transactions, holds, recurring, user_data, deletes, budgets, now, pending>>

\* is_default = 1 if count == 0 else 0
NewWalletAlwaysDefault(count) == 1

NewWalletDefault(count) == IF count = 0 THEN 1 ELSE 0

\* INSERT INTO wallets: the new row gets the next id
InsertWalletFirst(ws, row) == <<row>> \o ws

InsertWallet(ws, row) == Append(ws, row)

add_wallet(u, c) ==
    /\ Started(u)
    /\ Len(wallets) < MaxWallets
    /\ IF c \notin CURRENCIES
       THEN /\ Done("add_wallet", "InvalidCurrency")
            /\ UNCHANGED wallets
       ELSE LET count == Cardinality({w \in WalletIds : wallets[w].user_id = u})
                is_default == NewWalletDefault(count)
            IN  /\ wallets' = InsertWallet(wallets,
                        [user_id |-> u, currency |-> c, balance |-> 0,
                         is_default |-> is_default])
                /\ Done("add_wallet", "ok")
    /\ UNCHANGED <<transactions, holds, recurring, user_settings, user_data, deletes, budgets, now, pending>>

\* UPDATE wallets SET is_default = 0 WHERE user_id = ?
ClearNoDefault(ws, u) == ws

ClearDefault(ws, u) ==
    [i \in 1..Len(ws) |->
        IF ws[i].user_id = u THEN [ws[i] EXCEPT !.is_default = 0] ELSE ws[i]]

\* wallets_menu reads update.message, which the update of a pressed button
\* does not carry: called from a callback handler it raises AttributeError
CallbackHasMessage == FALSE

handle_set_default(u, w) ==
    /\ Started(u)
    /\ LET cleared == ClearDefault(wallets, u)
           found == WalletExists(w) /\ wallets[w].user_id = u
           working == IF found THEN [cleared EXCEPT ![w].is_default = 1] ELSE cleared
           \* not found: wallets_menu is called inside the with block
           raised == ~found /\ ~CallbackHasMessage
       IN  /\ wallets' = ConnExit(wallets, working, raised)
           /\ Done("handle_set_default",
                   IF found THEN "ok" ELSE IF raised THEN "fault" ELSE "NotFound")
    /\ UNCHANGED <<transactions, holds, recurring, user_settings, user_data, deletes, budgets, now, pending>>

\* handle_set_default up to `await query.edit_message_text("Wallet not found")`:
\* the two UPDATEs are made and not committed while the handler is suspended
handle_set_default_await(u, w) ==
    /\ Started(u)
    /\ pending = 0
    /\ ~(WalletExists(w) /\ wallets[w].user_id = u)
    /\ pending' = u
    /\ Done("handle_set_default", "awaiting")
    /\ UNCHANGED <<wallets, transactions, holds, recurring, user_settings, user_data, deletes, budgets, now>>

\* the handler goes on: wallets_menu raises inside the with block, the pending
\* writes are rolled back
handle_set_default_resume(u) ==
    /\ pending = u
    /\ pending' = 0
    /\ wallets' = ConnExit(wallets, ClearDefault(wallets, u), ~CallbackHasMessage)
    /\ Done("handle_set_default", IF CallbackHasMessage THEN "NotFound" ELSE "fault")
    /\ UNCHANGED <<transactions, holds, recurring, user_settings, user_data, deletes, budgets, now>>

\* ---- income and outcome ------------------------------------------------------

\* if currency != wallet_currency: amount = convert_currency(...)
KeepEnteredAmount(amount, currency, wallet_currency, ok) == amount

ToWalletCurrency(amount, currency, wallet_currency, ok) ==
    IF currency # wallet_currency
    THEN convert_currency(amount, currency, wallet_currency, ok)
    ELSE amount

\* w is context.user_data['income_wallet'] (0: not selected)
add_income(u, w, amount, cur, ok) ==
    /\ Started(u)
    /\ IF w = 0
       THEN /\ Done("add_income", "NotSelected")
            /\ UNCHANGED <<wallets, transactions>>
       ELSE IF ~WalletExists(w)
       THEN \* fetchone()[0] on no row: TypeError, nothing written
            /\ Done("add_income", "fault")
            /\ UNCHANGED <<wallets, transactions>>
       ELSE LET wallet_currency == wallets[w].currency
                currency == IF cur \in CURRENCIES THEN cur ELSE wallet_currency
                amt == ToWalletCurrency(amount, currency, wallet_currency, ok)
            IN  /\ TxRoom(1)
                /\ transactions' = transactions \cup
                       {TxRow(transactions, u, "income", amt, wallet_currency, w)}
                /\ wallets' = AddBalance(wallets, w, amt)
                /\ Done("add_income", "ok")
    /\ UNCHANGED <<holds, recurring, user_settings, user_data, deletes, budgets, now, pending>>

\* w is context.user_data['outcome_wallet'] (0: not selected); category is
\* detect_category(description)
add_outcome_as(u, w, amount, cur, ok, category) ==
    /\ Started(u)
    /\ IF w = 0
       THEN /\ Done("add_outcome", "NotSelected")
            /\ UNCHANGED <<wallets, transactions>>
       ELSE IF ~WalletExists(w)
       THEN /\ Done("add_outcome", "fault")
            /\ UNCHANGED <<wallets, transactions>>
       ELSE LET wallet_currency == wallets[w].currency
                currency == IF cur \in CURRENCIES THEN cur ELSE wallet_currency
                amt == ToWalletCurrency(amount, currency, wallet_currency, ok)
            IN  /\ TxRoom(1)
                /\ transactions' = transactions \cup
                       {[TxRow(transactions, u, "outcome", -amt, wallet_currency, w)
                            EXCEPT !.category_id = category]}
                /\ wallets' = AddBalance(wallets, w, -amt)
                /\ Done("add_outcome", "ok")
    /\ UNCHANGED <<holds, recurring, user_settings, user_data, deletes, budgets, now, pending>>

\* an outcome whose description holds no keyword: detect_category gives 'Other'
add_outcome(u, w, amount, cur, ok) == add_outcome_as(u, w, amount, cur, ok, "Other")

\* ---- delete transaction -----------------------------------------------------

\* SELECT ... FROM transactions WHERE id = ? AND user_id = ?
FindTransactionOfAnyUser(u, t) == {r \in transactions : r.id = t}

FindTransaction(u, t) == {r \in transactions : r.id = t /\ r.user_id = u}

\* done is the number of writes made before a statement raises (2: none does).
\* The try/except sits inside the with block: the handler of `except Exception`
\* sends a reply and returns, so the block ends normally and commits what was
\* written. replied = FALSE: that reply raises too, the exception leaves the
\* block and the writes are rolled back.
delete_transaction_run(u, t, done, replied) ==
    /\ Started(u)
    /\ deletes < MaxDeletes
    /\ LET found == FindTransaction(u, t)
       IN  IF found = {}
           THEN /\ Done("delete_transaction", "NotFound")
                /\ UNCHANGED <<wallets, transactions, deletes>>
           ELSE LET trans == CHOOSE r \in found : TRUE
                    adjustment == IF trans.type = "income"
                                  THEN -trans.amount ELSE trans.amount
                    kept == done >= 1 /\ (done = 2 \/ replied)
                IN  /\ transactions' = IF kept THEN {r \in transactions : r.id # t}
                                       ELSE transactions
                    /\ wallets' = IF done = 2 /\ trans.wallet_id # 0
                                  THEN AddBalance(wallets, trans.wallet_id, adjustment)
                                  ELSE wallets
                    /\ deletes' = IF kept THEN deletes + 1 ELSE deletes
                    /\ Done("delete_transaction",
                            IF done = 2 THEN "ok" ELSE IF replied THEN "Failed" ELSE "fault")
    /\ UNCHANGED <<holds, recurring, user_settings, user_data, budgets, now, pending>>

\* a deletion none of whose statements raises
delete_transaction(u, t) == delete_transaction_run(u, t, 2, TRUE)

\* ---- holds ---------------------------------------------------------------------

HoldRow(table, u, amount, description, currency, w) ==
    [id |-> RowId(table), user_id |-> u, amount |-> amount,
     description |-> description, currency |-> currency, wallet_id |-> w,
     tags |-> <<>>]

\* the sufficiency check of a wallet-sourced hold
HoldExceedsBalanceOrEqual(amount, balance) == amount >= balance

HoldExceedsBalance(amount, balance) == amount > balance

\* w is context.user_data['hold_wallet'] (0: not selected)
process_hold_from_wallet(u, w, amount) ==
    /\ Started(u)
    /\ IF amount <= 0
       THEN /\ Done("process_hold_from_wallet", "InvalidAmount")
            /\ UNCHANGED <<wallets, holds>>
       ELSE IF w = 0
       THEN /\ Done("process_hold_from_wallet", "NotSelected")
            /\ UNCHANGED <<wallets, holds>>
       ELSE IF ~(WalletExists(w) /\ wallets[w].user_id = u)
       THEN /\ Done("process_hold_from_wallet", "NotFound")
            /\ UNCHANGED <<wallets, holds>>
       ELSE IF HoldExceedsBalance(amount, wallets[w].balance)
       THEN /\ Done("process_hold_from_wallet", "InsufficientFunds")
            /\ UNCHANGED <<wallets, holds>>
       ELSE /\ HoldRoom(1)
            /\ holds' = holds \cup
                   {HoldRow(holds, u, amount, "Hold from wallet", wallets[w].currency, w)}
            /\ wallets' = AddBalance(wallets, w, -amount)
            /\ Done("process_hold_from_wallet", "ok")
    /\ UNCHANGED <<transactions, recurring, user_settings, user_data, deletes, budgets, now, pending>>

\* the lines of one message, each "Amount Description"
RECURSIVE InsertHolds(_, _, _, _)
InsertHolds(table, u, lines, currency) ==
    IF lines = <<>> THEN table
    ELSE InsertHolds(
            table \cup {HoldRow(table, u, Head(lines).amount, Head(lines).description,
                                currency, 0)},
            u, Tail(lines), currency)

HoldLines ==
    UNION {[1..n -> [amount : Amounts, description : Descriptions]] : n \in 1..MaxLines}

add_hold(u, lines) ==
    /\ Started(u)
    /\ HoldRoom(Len(lines))
    /\ holds' = InsertHolds(holds, u, lines, get_user_currency(u))
    /\ Done("add_hold", "ok")
    /\ UNCHANGED <<wallets, transactions, recurring, user_settings, user_data, deletes, budgets, now, pending>>

\* ---- transfer -------------------------------------------------------------------

\* callback transfer_from_<w>: the source wallet and its balance go to the session
select_target_wallet(u, w) ==
    /\ Started(u)
    /\ IF ~WalletExists(w)
       THEN /\ Done("select_target_wallet", "NotFound")
            /\ UNCHANGED user_data
       ELSE /\ user_data' = [user_data EXCEPT ![u] =
                   [from |-> w, to |-> 0, from_currency |-> wallets[w].currency,
                    to_currency |-> "", from_balance |-> wallets[w].balance]]
            /\ Done("select_target_wallet", "ok")
    /\ UNCHANGED <<wallets, transactions, holds, recurring, user_settings, deletes, budgets, now, pending>>

\* callback transfer_to_<w>; the keyboard offers the user's wallets but the source
enter_transfer_amount(u, w) ==
    /\ Started(u)
    /\ w # user_data[u].from
    /\ IF ~WalletExists(w)
       THEN /\ Done("enter_transfer_amount", "NotFound")
            /\ UNCHANGED user_data
       ELSE IF user_data[u].from = 0
       THEN \* KeyError on user_data['transfer'], caught by the handler
            /\ Done("enter_transfer_amount", "fault")
            /\ UNCHANGED user_data
       ELSE /\ user_data' = [user_data EXCEPT ![u].to = w,
                                              ![u].to_currency = wallets[w].currency]
            /\ Done("enter_transfer_amount", "ok")
    /\ UNCHANGED <<wallets, transactions, holds, recurring, user_settings, deletes, budgets, now, pending>>

cancel_transfer(u) ==
    /\ Started(u)
    /\ user_data[u] # NoTransfer
    /\ user_data' = [user_data EXCEPT ![u] = NoTransfer]
    /\ Done("cancel_transfer", "ok")
    /\ UNCHANGED <<wallets, transactions, holds, recurring, user_settings, deletes, budgets, now, pending>>

\* the balance the sufficiency check compares the amount with
SourceBalanceFromSession(u, from_wallet) == user_data[u].from_balance

SourceBalance(u, from_wallet) == wallets[from_wallet].balance

\* the four writes of process_transfer, the first `done` of them applied
TransferWritesUnconverted(u, amount, converted_amount, done) ==
    LET td == user_data[u]
        w1 == IF done >= 1 THEN AddBalance(wallets, td.from, -amount) ELSE wallets
        w2 == IF done >= 2 THEN AddBalance(w1, td.to, amount) ELSE w1
        t1 == IF done >= 3
              THEN transactions \cup
                   {TxRow(transactions, u, "transfer", -amount, td.from_currency, td.from)}
              ELSE transactions
        t2 == IF done >= 4
              THEN t1 \cup
                   {TxRow(t1, u, "transfer", amount, td.to_currency, td.to)}
              ELSE t1
    IN  [wallets |-> w2, transactions |-> t2]

TransferWrites(u, amount, converted_amount, done) ==
    LET td == user_data[u]
        w1 == IF done >= 1 THEN AddBalance(wallets, td.from, -amount) ELSE wallets
        w2 == IF done >= 2 THEN AddBalance(w1, td.to, converted_amount) ELSE w1
        t1 == IF done >= 3
              THEN transactions \cup
                   {TxRow(transactions, u, "transfer", -amount, td.from_currency, td.from)}
              ELSE transactions
        t2 == IF done >= 4
              THEN t1 \cup
                   {TxRow(t1, u, "transfer", converted_amount, td.to_currency, td.to)}
              ELSE t1
    IN  [wallets |-> w2, transactions |-> t2]

\* done < 4: a statement raises after `done` writes (a store error)
process_transfer(u, amount, ok, done) ==
    /\ Started(u)
    /\ LET td == user_data[u]
       IN  IF amount <= 0
           THEN /\ Done("process_transfer", "InvalidAmount")
                /\ UNCHANGED <<wallets, transactions, user_data>>
           ELSE IF td.from = 0
           THEN /\ Done("process_transfer", "NoTransferData")
                /\ UNCHANGED <<wallets, transactions, user_data>>
           ELSE IF td.to = 0
           THEN \* KeyError on transfer_data['to'], caught by the handler
                /\ Done("process_transfer", "fault")
                /\ UNCHANGED <<wallets, transactions, user_data>>
           ELSE IF ~(WalletExists(td.from) /\ wallets[td.from].user_id = u)
           THEN /\ Done("process_transfer", "NotFound")
                /\ UNCHANGED <<wallets, transactions, user_data>>
           ELSE IF amount > SourceBalance(u, td.from)
           THEN /\ Done("process_transfer", "InsufficientFunds")
                /\ UNCHANGED <<wallets, transactions, user_data>>
           ELSE LET converted_amount ==
                        IF td.from_currency # td.to_currency
                        THEN convert_currency(amount, td.from_currency, td.to_currency, ok)
                        ELSE amount
                    committed == [wallets |-> wallets, transactions |-> transactions]
                    working == TransferWrites(u, amount, converted_amount, done)
                    after == ConnExit(committed, working, done < 4)
                IN  /\ TxRoom(2)
                    /\ wallets' = after.wallets
                    /\ transactions' = after.transactions
                    /\ user_data' = IF done = 4
                                    THEN [user_data EXCEPT ![u] = NoTransfer]
                                    ELSE user_data
                    /\ Done("process_transfer", IF done = 4 THEN "ok" ELSE "fault")
    /\ UNCHANGED <<holds, recurring, user_settings, deletes, budgets, now, pending>>

\* ---- hold management -----------------------------------------------------------

\* sqlite3.Row has no method get: hold.get('wallet_id') raises AttributeError
RowHasGet == FALSE

\* callback transfer_income_<h> / transfer_outcome_<h>
transfer_hold(u, action, h) ==
    /\ Started(u)
    /\ LET found == {r \in holds : r.id = h}
       IN  IF found = {}
           THEN /\ Done("transfer_hold", "NotFound")
                /\ UNCHANGED <<wallets, transactions, holds>>
           ELSE IF ~RowHasGet
           THEN \* the exception leaves the with block: rollback, nothing written
                /\ Done("transfer_hold", "fault")
                /\ UNCHANGED <<wallets, transactions, holds>>
           ELSE LET hold == CHOOSE r \in found : TRUE
                    amount == IF action = "income" THEN hold.amount ELSE -hold.amount
                IN  /\ TxRoom(1)
                    /\ wallets' = IF hold.wallet_id # 0 /\ action = "outcome"
                                  THEN AddBalance(wallets, hold.wallet_id, hold.amount)
                                  ELSE wallets
                    /\ transactions' = transactions \cup
                           {TxRow(transactions, u, action, amount, hold.currency,
                                  hold.wallet_id)}
                    /\ holds' = {r \in holds : r.id # h}
                    /\ Done("transfer_hold", "ok")
    /\ UNCHANGED <<recurring, user_settings, user_data, deletes, budgets, now, pending>>

\* callback remove_<h>
remove_hold(u, h) ==
    /\ Started(u)
    /\ holds' = {r \in holds : r.id # h}
    /\ Done("remove_hold", "ok")
    /\ UNCHANGED <<wallets, transactions, recurring, user_settings, user_data, deletes, budgets, now, pending>>

\* UPDATE holds SET tags = new_tags WHERE id = h
UpsertTags(table, h, new_tags) ==
    IF \E r \in table : r.id = h
    THEN {IF r.id = h THEN [r EXCEPT !.tags = new_tags] ELSE r : r \in table}
    ELSE table \cup {[id |-> h, user_id |-> 0, amount |-> 0, description |-> "",
                      currency |-> "", wallet_id |-> 0, tags |-> new_tags]}

UpdateTags(table, h, new_tags) ==
    {IF r.id = h THEN [r EXCEPT !.tags = new_tags] ELSE r : r \in table}

\* if f"[{tag}]" not in current_tags
TagIsLast(current_tags, tag) ==
    current_tags # <<>> /\ current_tags[Len(current_tags)] = tag

TagPresent(current_tags, tag) ==
    \E i \in 1..Len(current_tags) : current_tags[i] = tag

\* callback addtag_<h>_<tag>
apply_tag(u, h, tag) ==
    /\ Started(u)
    /\ LET found == {r \in holds : r.id = h}
           current_tags == IF found = {} THEN <<>> ELSE (CHOOSE r \in found : TRUE).tags
           present == TagPresent(current_tags, tag)
       IN  IF present
           THEN /\ Done("apply_tag", "exists")
                /\ UNCHANGED holds
           ELSE /\ holds' = UpdateTags(holds, h, Append(current_tags, tag))
                \* after the commit: fetchone()[0] on no row raises TypeError
                /\ Done("apply_tag", IF found = {} THEN "fault" ELSE "ok")
    /\ UNCHANGED <<wallets, transactions, recurring, user_settings, user_data, deletes, budgets, now, pending>>

\* h is context.user_data['editing_hold'] (0: not set)
save_hold_name(u, h, new_description) ==
    /\ Started(u)
    /\ IF h = 0
       THEN /\ Done("save_hold_name", "NotSelected")
            /\ UNCHANGED holds
       ELSE /\ holds' = {IF r.id = h /\ r.user_id = u
                         THEN [r EXCEPT !.description = new_description] ELSE r :
                         r \in holds}
            /\ Done("save_hold_name", "ok")
    /\ UNCHANGED <<wallets, transactions, recurring, user_settings, user_data, deletes, budgets, now, pending>>

\* ---- budgets and the weekly report ----------------------------------------------

BudgetRoom == RowId(budgets) <= MaxBudgets

\* DELETE FROM budgets WHERE user_id = ? AND category_id = ? AND month = ? AND year = ?
KeepExistingBudget(u, category) == budgets

DeleteExistingBudget(u, category) ==
    {b \in budgets : ~(b.user_id = u /\ b.category_id = category /\ b.month = now)}

\* category is context.user_data['budget_category'] (NoRow: not chosen)
save_budget(u, category, amount) ==
    /\ Started(u)
    /\ IF amount <= 0
       THEN /\ Done("save_budget", "InvalidAmount")
            /\ UNCHANGED budgets
       ELSE IF category = NoRow
       THEN /\ Done("save_budget", "NoCategory")
            /\ UNCHANGED budgets
       ELSE IF category \notin Categories
       THEN /\ Done("save_budget", "NotFound")
            /\ UNCHANGED budgets
       ELSE LET kept == DeleteExistingBudget(u, category)
            IN  /\ BudgetRoom
                /\ budgets' = kept \cup
                       {[id |-> RowId(kept), user_id |-> u, category_id |-> category,
                         amount |-> amount, currency |-> get_user_currency(u),
                         month |-> now]}
                /\ Done("save_budget", "ok")
    /\ UNCHANGED <<wallets, transactions, holds, recurring, user_settings, user_data,
                   deletes, now, pending>>

\* the calendar moves on to the next month
next_month ==
    /\ now < MaxMonths
    /\ now' = now + 1
    /\ Done("next_month", "ok")
    /\ UNCHANGED <<wallets, transactions, holds, recurring, user_settings, user_data,
                   deletes, budgets, pending>>

\* LEFT JOIN transactions t ON t.category_id = c.id AND strftime('%Y-%m', t.date) = ?
JoinedTransactions(b) ==
    {t \in transactions : t.category_id = b.category_id /\ t.month = now}

\* one line of the report: SUM(CASE WHEN t.type = 'outcome' ...), sign flipped
BudgetLine(b) ==
    LET sum == SumAmounts({t \in JoinedTransactions(b) : t.type = "outcome"})
        spent == IF sum # 0 THEN -sum ELSE 0
    IN  [user_id |-> b.user_id, category |-> b.category_id, amount |-> b.amount,
         spent |-> spent, remaining |-> b.amount - spent]

\* the users a message is built for: those with a budget of the current month
ReportUsers == {b.user_id : b \in {x \in budgets : x.month = now}}

\* try: await context.bot.send_message(...) except Exception: logger.error(...)
\* oks[u] = FALSE: sending to user u raises
DeliveredUntilFailure(oks) ==
    {u \in ReportUsers : \A v \in ReportUsers : v <= u => oks[v]}

Delivered(oks) == {u \in ReportUsers : oks[u]}

\* the lines sent to the users that have a budget of the current month
notify_budget_updates(oks) ==
    /\ last' = [op |-> "notify_budget_updates", res |-> "ok",
                report |-> {BudgetLine(b) : b \in {x \in budgets : x.month = now}},
                delivered |-> Delivered(oks)]
    /\ UNCHANGED <<wallets, transactions, holds, recurring, user_settings, user_data,
                   deletes, budgets, now, pending>>

\* ---- recurring rules and the daily tick -------------------------------------------

\* type is context.user_data['recurring_type'] (NoRow: not chosen yet)
add_recurring(u, type, amount, day) ==
    /\ Started(u)
    /\ IF type = NoRow
       THEN /\ Done("add_recurring", "NoType")
            /\ UNCHANGED recurring
       ELSE IF ~(1 <= day /\ day <= 31)
       THEN /\ Done("add_recurring", "InvalidDay")
            /\ UNCHANGED recurring
       ELSE /\ RuleRoom
            /\ recurring' = recurring \cup
                   {[id |-> RowId(recurring), user_id |-> u, type |-> type,
                     amount |-> amount, currency |-> get_user_currency(u),
                     day_of_month |-> day, is_active |-> 1]}
            /\ Done("add_recurring", "ok")
    /\ UNCHANGED <<wallets, transactions, holds, user_settings, user_data, deletes, budgets, now, pending>>

\* callback remove_recur_<r>: DELETE FROM recurring WHERE id = ?
remove_recurring(u, r) ==
    /\ Started(u)
    /\ recurring' = {x \in recurring : x.id # r}
    /\ Done("remove_recurring", "ok")
    /\ UNCHANGED <<wallets, transactions, holds, user_settings, user_data, deletes, budgets, now, pending>>

\* r is context.user_data['editing_recurring']:
\* UPDATE recurring SET amount = ?, day_of_month = ?, description = ? WHERE id = ?
edit_recurring(u, r, amount, day) ==
    /\ Started(u)
    /\ IF ~(1 <= day /\ day <= 31)
       THEN /\ Done("edit_recurring", "InvalidDay")
            /\ UNCHANGED recurring
       ELSE /\ recurring' = {IF x.id = r
                             THEN [x EXCEPT !.amount = amount, !.day_of_month = day]
                             ELSE x : x \in recurring}
            /\ Done("edit_recurring", "ok")
    /\ UNCHANGED <<wallets, transactions, holds, user_settings, user_data, deletes, budgets, now, pending>>

\* state ADD_RECURRING lists two handlers with the filter TEXT & ~COMMAND,
\* add_recurring before edit_recurring: the first one that matches runs
FirstTextHandler == "add_recurring"

\* the text "<amount> <day>" sent after edit_recurring_prompt has shown rule r;
\* type is context.user_data['recurring_type'] (NoRow: absent)
recurring_text(u, r, type, amount, day) ==
    /\ \E x \in recurring : x.id = r
    /\ IF FirstTextHandler = "add_recurring"
       THEN add_recurring(u, type, amount, day)
       ELSE edit_recurring(u, r, amount, day)

\* SELECT * FROM recurring WHERE day_of_month = today AND is_active = 1
DueRulesNotYetApplied(today) ==
    {r \in recurring : /\ r.day_of_month = today /\ r.is_active = 1
                       /\ ~\E t \in transactions :
                              t.user_id = r.user_id /\ t.type = r.type}

\* WHERE day_of_month = ? AND is_active = 1
IsActive(r, today) == r.is_active = 1

IsDue(r, today) == r.day_of_month = today /\ r.is_active = 1

DueRules(today) == {r \in recurring : IsDue(r, today)}

\* the rules that will write a row: their user has a default wallet
Materialized(today) ==
    {r \in DueRules(today) : get_default_wallet(r.user_id) # 0}

\* the loop over the due rules, in row order; each iteration commits
RECURSIVE ApplyRules(_, _, _)

\* no default wallet: `continue` goes on with the next rule
AbortAfterSkip(db, rest, oks) == db

ContinueAfterSkip(db, rest, oks) == ApplyRules(db, rest, oks)

\* if transaction['type'] == 'outcome': converted_amount = -converted_amount
UnsignedAmount(type, converted) == converted

SignedAmount(type, converted) == IF type = "outcome" THEN -converted ELSE converted

ApplyRules(db, rules, oks) ==
    IF rules = {} THEN db
    ELSE LET rule == CHOOSE r \in rules : \A x \in rules : r.id <= x.id
             wallet_id == get_default_wallet(rule.user_id)
             rest == rules \ {rule}
         IN  IF wallet_id = 0
             THEN ContinueAfterSkip(db, rest, oks)
             ELSE LET wallet_currency == db.wallets[wallet_id].currency
                      converted == IF rule.currency # wallet_currency
                                   THEN convert_currency(rule.amount, rule.currency,
                                                         wallet_currency, oks[rule.id])
                                   ELSE rule.amount
                      converted_amount == SignedAmount(rule.type, converted)
                  IN  ApplyRules(
                          [wallets |-> AddBalance(db.wallets, wallet_id, converted_amount),
                           transactions |-> db.transactions \cup
                               {TxRow(db.transactions, rule.user_id, rule.type,
                                      converted_amount, wallet_currency, wallet_id)}],
                          rest, oks)

\* the connection of a suspended handler holds the write lock: the first
\* INSERT of the tick raises OperationalError (database is locked), which
\* nothing catches, and the job ends
Locked(today) == pending # 0 /\ Materialized(today) # {}

process_recurring_transactions(today, oks) ==
    /\ TxRoom(Cardinality(Materialized(today)))
    /\ LET db == [wallets |-> wallets, transactions |-> transactions]
           after == IF Locked(today) THEN db ELSE ApplyRules(db, DueRules(today), oks)
       IN  /\ wallets' = after.wallets
           /\ transactions' = after.transactions
    \* a skipped rule is logged as an error
    /\ Done("process_recurring_transactions",
            IF Locked(today) THEN "locked"
            ELSE IF DueRules(today) = Materialized(today) THEN "ok" ELSE "skipped")
    /\ UNCHANGED <<holds, recurring, user_settings, user_data, deletes, budgets, now, pending>>

\* ---- the Cancel button of the input states -------------------------------------------

InputStates == {"ADD_WALLET", "ADD_INCOME", "ADD_OUTCOME", "ADD_HOLD", "ADD_RECURRING"}

\* the handlers of a state whose filter matches the text of the Cancel button,
\* in the order of the state's list: TEXT & ~COMMAND matches every text, the
\* regex of add_recurring_type does not match
CancelMatches(st) ==
    IF st = "ADD_WALLET" THEN <<"add_wallet", "cancel">>
    ELSE IF st = "ADD_INCOME" THEN <<"add_income", "cancel">>
    ELSE IF st = "ADD_OUTCOME" THEN <<"add_outcome", "cancel">>
    ELSE IF st = "ADD_HOLD" THEN <<"add_hold", "cancel">>
    ELSE <<"add_recurring", "edit_recurring", "cancel">>

\* the handler that runs: the first of the list that matches
FirstMatch(st) == Head(CancelMatches(st))

cancel(u) ==
    /\ last' = [op |-> "cancel", res |-> "ok", state |-> "MAIN_MENU"]
    /\ UNCHANGED <<wallets, transactions, holds, recurring, user_settings, user_data,
                   deletes, budgets, now, pending>>

\* the state an input handler returns when it is given the text of the Cancel
\* button: the word Cancel is no currency code and the cross is no number.
\* selected: the session holds the wallet of the income or outcome
StateAfterCancelText(handler, st, selected) ==
    IF handler = "add_hold" THEN "MAIN_MENU"
    ELSE IF handler \in {"add_income", "add_outcome"} /\ ~selected THEN "MAIN_MENU"
    ELSE st

\* the user presses Cancel in input state st
cancel_text(u, st, selected) ==
    /\ Started(u)
    /\ LET handler == FirstMatch(st)
       IN  IF handler = "cancel"
           THEN cancel(u)
           ELSE /\ last' = [op |-> handler, res |-> "InvalidFormat",
                            state |-> StateAfterCancelText(handler, st, selected)]
                /\ UNCHANGED <<wallets, transactions, holds, recurring, user_settings,
                               user_data, deletes, budgets, now, pending>>

\* ---- the system -----------------------------------------------------------------------

\* the handlers of the conversation
Handlers ==
    \/ \E u \in Users : start(u)
    \/ \E u \in Users, c \in Currencies : set_currency(u, c)
    \/ \E u \in Users, c \in CurrencyInputs : add_wallet(u, c)
    \/ \E u \in Users, w \in 0..MaxWallets : handle_set_default(u, w)
    \/ \E u \in Users, w \in 0..MaxWallets, a \in Amounts, c \in CurrencyInputs,
          ok \in BOOLEAN : add_income(u, w, a, c, ok)
    \/ \E u \in Users, w \in 0..MaxWallets, a \in Amounts, c \in CurrencyInputs,
          ok \in BOOLEAN : add_outcome(u, w, a, c, ok)
    \/ \E u \in Users, t \in 1..MaxTx, done \in 0..2, replied \in BOOLEAN :
          delete_transaction_run(u, t, done, replied)
    \/ \E u \in Users, w \in 0..MaxWallets, a \in Amounts :
          process_hold_from_wallet(u, w, a)
    \/ \E u \in Users, lines \in HoldLines : add_hold(u, lines)
    \/ \E u \in Users, w \in 1..MaxWallets : select_target_wallet(u, w)
    \/ \E u \in Users, w \in 1..MaxWallets : enter_transfer_amount(u, w)
    \/ \E u \in Users : cancel_transfer(u)
    \/ \E u \in Users, a \in Amounts, ok \in BOOLEAN, done \in 0..4 :
          process_transfer(u, a, ok, done)
    \/ \E u \in Users, action \in HoldActions, h \in 1..MaxHolds :
          transfer_hold(u, action, h)
    \/ \E u \in Users, h \in 1..MaxHolds : remove_hold(u, h)
    \/ \E u \in Users, h \in 1..MaxHolds, tag \in Tags : apply_tag(u, h, tag)
    \/ \E u \in Users, h \in 0..MaxHolds, d \in Descriptions : save_hold_name(u, h, d)
    \/ \E u \in Users, type \in RuleTypes \cup {NoRow}, a \in Amounts, day \in DayInputs :
          add_recurring(u, type, a, day)
    \/ \E u \in Users, r \in 1..MaxRules : remove_recurring(u, r)
    \/ \E u \in Users, r \in 1..MaxRules, type \in RuleTypes \cup {NoRow}, a \in Amounts,
          day \in DayInputs : recurring_text(u, r, type, a, day)
    \/ \E u \in Users, category \in Categories \cup {NoRow}, a \in BudgetAmounts :
          save_budget(u, category, a)
    \/ next_month
    \/ \E u \in Users, w \in 0..MaxWallets : handle_set_default_await(u, w)
    \/ \E u \in Users, st \in InputStates, selected \in BOOLEAN :
          cancel_text(u, st, selected)

\* the jobs of the job queue
Jobs ==
    \/ \E today \in Days, oks \in [1..MaxRules -> BOOLEAN] :
          process_recurring_transactions(today, oks)
    \/ \E oks \in [Users -> BOOLEAN] : notify_budget_updates(oks)

\* updates are handled one at a time; a job can run while a handler awaits
Next ==
    \/ pending = 0 /\ Handlers
    \/ \E u \in Users : handle_set_default_resume(u)
    \/ Jobs

Spec == Init /\ [][Next]_vars

\* ---- slices of the system -------------------------------------------------------
\* The whole of Next is too large to enumerate; each slice keeps the handlers
\* of one part of the engine and fewer of their inputs.

\* the transfer flow, funded by income and drained by outcome
NextTransfer ==
    \/ \E u \in Callers : start(u)
    \/ \E u \in Callers, c \in Currencies : add_wallet(u, c)
    \/ \E u \in Callers, w \in 1..MaxWallets : add_income(u, w, 100, "XXX", TRUE)
    \/ \E u \in Callers, w \in 1..MaxWallets : add_outcome(u, w, 100, "XXX", TRUE)
    \/ \E u \in Callers, w \in 1..MaxWallets : select_target_wallet(u, w)
    \/ \E u \in Callers, w \in 1..MaxWallets : enter_transfer_amount(u, w)
    \/ \E u \in Callers : cancel_transfer(u)
    \/ \E u \in Callers, a \in Amounts, ok \in BOOLEAN, done \in 0..4 :
          process_transfer(u, a, ok, done)

SpecTransfer == Init /\ [][NextTransfer]_vars

\* the hold lifecycle
NextHolds ==
    \/ \E u \in Users : start(u)
    \/ \E u \in Users, c \in Currencies : add_wallet(u, c)
    \/ \E u \in Callers, w \in 1..MaxWallets : add_income(u, w, 100, "XXX", TRUE)
    \/ \E u \in Callers, w \in 0..MaxWallets, a \in Amounts :
          process_hold_from_wallet(u, w, a)
    \/ \E u \in Callers, lines \in HoldLines : add_hold(u, lines)
    \/ \E u \in Callers, action \in HoldActions, h \in 1..MaxHolds :
          transfer_hold(u, action, h)
    \/ \E u \in Callers, h \in 1..MaxHolds : remove_hold(u, h)
    \/ \E u \in Callers, h \in 1..MaxHolds : apply_tag(u, h, "REFUND")
    \/ \E u \in Callers, h \in 0..MaxHolds, d \in Descriptions : save_hold_name(u, h, d)

SpecHolds == Init /\ [][NextHolds]_vars

\* income, outcome, deletion, transfer and the daily tick, for the caller
NextLedger ==
    \/ \E u \in Callers : start(u)
    \/ \E u \in Callers, c \in Currencies : add_wallet(u, c)
    \/ \E u \in Callers, w \in 1..MaxWallets : add_income(u, w, 100, "XXX", TRUE)
    \/ \E u \in Callers, w \in 1..MaxWallets : add_outcome(u, w, 100, "XXX", TRUE)
    \/ \E u \in Callers, t \in 1..MaxTx : delete_transaction(u, t)
    \/ \E u \in Callers, w \in 1..MaxWallets : select_target_wallet(u, w)
    \/ \E u \in Callers, w \in 1..MaxWallets : enter_transfer_amount(u, w)
    \/ \E u \in Callers : process_transfer(u, 100, TRUE, 4)
    \/ \E u \in Callers : add_recurring(u, "outcome", 100, 1)
    \/ \E today \in Days, oks \in [1..MaxRules -> {TRUE}] :
          process_recurring_transactions(today, oks)

SpecLedger == Init /\ [][NextLedger]_vars

\* wallets and their default flag, income and deletion, for every user
NextAccounts ==
    \/ \E u \in Users : start(u)
    \/ \E u \in Users, c \in CurrencyInputs : add_wallet(u, c)
    \/ \E u \in Users, w \in 0..MaxWallets : handle_set_default(u, w)
    \/ \E u \in Users, w \in 1..MaxWallets : add_income(u, w, 100, "XXX", TRUE)
    \/ \E u \in Users, t \in 1..MaxTx : delete_transaction(u, t)

SpecAccounts == Init /\ [][NextAccounts]_vars

\* convert_currency on its own: one call per step, for amounts that are whole
\* numbers of cents in both directions of the EUR rate
ConvAmounts == {9 * k : k \in 0..MaxConv}

call_convert_currency(amount, from_curr, to_curr, ok) ==
    /\ last' = [op |-> "convert_currency",
                res |-> convert_currency(amount, from_curr, to_curr, ok),
                amount |-> amount, from_curr |-> from_curr, to_curr |-> to_curr,
                ok |-> ok, lookup |-> RateLookupMade(from_curr, to_curr)]
    /\ UNCHANGED <<wallets, transactions, holds, recurring, user_settings,
                   user_data, deletes, budgets, now, pending>>

\* the codes converted: those of the wallets, CHF and a code without a rate
ConvCurrencies == CurrencyInputs \cup {"CHF"}

NextConvert ==
    \E amount \in ConvAmounts, from_curr \in ConvCurrencies,
       to_curr \in ConvCurrencies, ok \in BOOLEAN :
          call_convert_currency(amount, from_curr, to_curr, ok)

SpecConvert == Init /\ [][NextConvert]_vars

\* every writer of transaction rows, with the currency and the outcome of the
\* rate lookup as inputs
NextCurrency ==
    \/ \E u \in Callers : start(u)
    \/ \E u \in Callers, c \in Currencies : add_wallet(u, c)
    \/ \E u \in Callers, a \in Amounts, c \in CurrencyInputs, ok \in BOOLEAN :
          add_income(u, 1, a, c, ok)
    \/ \E u \in Callers, c \in Currencies : add_outcome(u, 2, 100, c, TRUE)
    \/ \E u \in Callers : select_target_wallet(u, 1)
    \/ \E u \in Callers : enter_transfer_amount(u, 2)
    \/ \E u \in Callers : process_transfer(u, 100, TRUE, 4)
    \/ \E u \in Callers : add_recurring(u, "outcome", 100, 1)
    \/ \E oks \in [1..MaxRules -> BOOLEAN] : process_recurring_transactions(1, oks)

SpecCurrency == Init /\ [][NextCurrency]_vars

\* recurring rules of every user and the daily tick
NextScheduler ==
    \/ \E u \in Users : start(u)
    \/ \E u \in Callers : set_currency(u, "EUR")
    \/ \E u \in Users, c \in Currencies : add_wallet(u, c)
    \/ \E u \in Users, type \in RuleTypes, day \in Days : add_recurring(u, type, 100, day)
    \/ \E today \in Days, oks \in [1..MaxRules -> BOOLEAN] :
          process_recurring_transactions(today, oks)

SpecScheduler == Init /\ [][NextScheduler]_vars

\* budgets of every user over two months
NextBudget ==
    \/ \E u \in Users : start(u)
    \/ \E u \in Callers : set_currency(u, "EUR")
    \/ \E u \in Users, category \in Categories \cup {NoRow, "Rent"},
          amount \in BudgetAmounts : save_budget(u, category, amount)
    \/ next_month

SpecBudget == Init /\ [][NextBudget]_vars

\* budgets on Food, categorised outcomes of every user and the weekly report
NextReport ==
    \/ \E u \in Users : start(u)
    \/ \E u \in Users : add_wallet(u, "USD")
    \/ \E u \in Users, w \in 1..MaxWallets :
          add_outcome_as(u, w, 100, "XXX", TRUE, "Food")
    \/ \E u \in Callers : add_outcome_as(u, 1, 100, "XXX", TRUE, "Other")
    \/ \E u \in Users : save_budget(u, "Food", 200)
    \/ next_month
    \/ \E oks \in [Users -> BOOLEAN] : notify_budget_updates(oks)

SpecReport == Init /\ [][NextReport]_vars

\* holds and rules of every user, removed and tagged by every user
NextOwnership ==
    \/ \E u \in Users : start(u)
    \/ \E u \in Users, lines \in HoldLines : add_hold(u, lines)
    \/ \E u \in Users, h \in 1..MaxHolds : remove_hold(u, h)
    \/ \E u \in Users, h \in 1..MaxHolds : apply_tag(u, h, "REFUND")
    \/ \E u \in Users, type \in RuleTypes, day \in Days : add_recurring(u, type, 100, day)
    \/ \E u \in Users, r \in 1..MaxRules : remove_recurring(u, r)

SpecOwnership == Init /\ [][NextOwnership]_vars

\* the rules of the caller: new rules are of 100, the texts of an edit carry 200
NextRecurring ==
    \/ \E u \in Callers : start(u)
    \/ \E u \in Callers, c \in Currencies : set_currency(u, c)
    \/ \E u \in Callers, type \in RuleTypes, day \in Days : add_recurring(u, type, 100, day)
    \/ \E u \in Callers, r \in 1..MaxRules, type \in RuleTypes \cup {NoRow},
          day \in DayInputs : recurring_text(u, r, type, 200, day)
    \/ \E u \in Callers, r \in 1..MaxRules : remove_recurring(u, r)

SpecRecurring == Init /\ [][NextRecurring]_vars

\* income, outcome and a deletion that may fail part way, for the caller
NextDelete ==
    \/ \E u \in Callers : start(u)
    \/ \E u \in Callers, c \in Currencies : add_wallet(u, c)
    \/ \E u \in Callers, w \in 1..MaxWallets : add_income(u, w, 100, "XXX", TRUE)
    \/ \E u \in Callers, w \in 1..MaxWallets : add_outcome(u, w, 100, "XXX", TRUE)
    \/ \E u \in Callers, t \in 1..MaxTx, done \in 0..2, replied \in BOOLEAN :
          delete_transaction_run(u, t, done, replied)

SpecDelete == Init /\ [][NextDelete]_vars

\* a handler suspended with uncommitted writes and the daily tick
NextConcurrent ==
    \/ pending = 0 /\ \E u \in Callers : start(u)
    \/ pending = 0 /\ \E u \in Callers : add_wallet(u, "USD")
    \/ pending = 0 /\ \E u \in Callers, type \in RuleTypes, day \in Days :
          add_recurring(u, type, 100, day)
    \/ \E u \in Callers, w \in 0..MaxWallets : handle_set_default_await(u, w)
    \/ \E u \in Callers : handle_set_default_resume(u)
    \/ \E today \in Days, oks \in [1..MaxRules -> {TRUE}] :
          process_recurring_transactions(today, oks)

SpecConcurrent == Init /\ [][NextConcurrent]_vars

\* days of the month that the shortest months do not have
LateDays == {1, 29, 30, 31}

\* the lengths of the months of the calendar
MonthLengths == {28, 29, 30, 31}

\* rules on late days and the ticks of those days
NextCalendar ==
    \/ \E u \in Callers : start(u)
    \/ \E u \in Callers : add_wallet(u, "USD")
    \/ \E u \in Callers, type \in RuleTypes, day \in LateDays :
          add_recurring(u, type, 100, day)
    \/ \E u \in Callers, r \in 1..MaxRules : remove_recurring(u, r)
    \/ \E today \in LateDays, oks \in [1..MaxRules -> {TRUE}] :
          process_recurring_transactions(today, oks)

SpecCalendar == Init /\ [][NextCalendar]_vars

\* the settings rows of every user
NextSettings ==
    \/ \E u \in Users : start(u)
    \/ \E u \in Users, c \in Currencies : set_currency(u, c)
    \/ \E u \in Users, c \in CurrencyInputs : add_wallet(u, c)
    \/ \E u \in Users, type \in RuleTypes : add_recurring(u, type, 100, 1)

SpecSettings == Init /\ [][NextSettings]_vars

\* every writer of table wallets, for the caller
NextWallets ==
    \/ \E u \in Callers : start(u)
    \/ \E u \in Callers, c \in Currencies : add_wallet(u, c)
    \/ \E u \in Callers, w \in 0..MaxWallets : handle_set_default(u, w)
    \/ \E u \in Callers : add_income(u, 1, 100, "XXX", TRUE)
    \/ \E u \in Callers : add_outcome(u, 1, 100, "XXX", TRUE)
    \/ \E u \in Callers : delete_transaction(u, 1)
    \/ \E u \in Callers : process_hold_from_wallet(u, 1, 100)
    \/ \E u \in Callers : select_target_wallet(u, 1)
    \/ \E u \in Callers : enter_transfer_amount(u, 2)
    \/ \E u \in Callers : process_transfer(u, 100, TRUE, 4)
    \/ \E u \in Callers : add_recurring(u, "income", 100, 1)
    \/ \E oks \in [1..MaxRules -> {TRUE}] : process_recurring_transactions(1, oks)

SpecWallets == Init /\ [][NextWallets]_vars

\* transfers between wallets in USD, EUR and a currency without a rate
NextConserve ==
    \/ \E u \in Callers : start(u)
    \/ \E u \in Callers, c \in Currencies \cup {"RUB"} : add_wallet(u, c)
    \/ \E u \in Callers, w \in 1..MaxWallets : add_income(u, w, 100, "XXX", TRUE)
    \/ \E u \in Callers, w \in 1..MaxWallets : select_target_wallet(u, w)
    \/ \E u \in Callers, w \in 1..MaxWallets : enter_transfer_amount(u, w)
    \/ \E u \in Callers, ok \in BOOLEAN : process_transfer(u, 100, ok, 4)

SpecConserve == Init /\ [][NextConserve]_vars

\* the Cancel button in the input states, among wallets, incomes and holds
NextCancel ==
    \/ \E u \in Users : start(u)
    \/ \E u \in Callers, c \in CurrencyInputs : add_wallet(u, c)
    \/ \E u \in Callers, w \in 0..MaxWallets : add_income(u, w, 100, "XXX", TRUE)
    \/ \E u \in Callers, lines \in HoldLines : add_hold(u, lines)
    \/ \E u \in Callers, type \in RuleTypes \cup {NoRow} : add_recurring(u, type, 100, 1)
    \/ \E u \in Users, st \in InputStates, selected \in BOOLEAN :
          cancel_text(u, st, selected)

SpecCancel == Init /\ [][NextCancel]_vars

\* holds of the caller and both tag buttons
NextTags ==
    \/ \E u \in Callers : start(u)
    \/ \E u \in Callers, c \in Currencies : add_wallet(u, c)
    \/ \E u \in Callers : add_income(u, 1, 100, "XXX", TRUE)
    \/ \E u \in Callers : process_hold_from_wallet(u, 1, 100)
    \/ \E u \in Callers, lines \in HoldLines : add_hold(u, lines)
    \/ \E u \in Callers, h \in 1..MaxHolds : remove_hold(u, h)
    \/ \E u \in Callers, h \in 1..MaxHolds, tag \in Tags : apply_tag(u, h, tag)

SpecTags == Init /\ [][NextTags]_vars

\* ---- properties ------------------------------------------------------------------

TxOn(w) == {r \in transactions : r.wallet_id = w}
HoldsOn(w) == {r \in holds : r.wallet_id = w}
HoldAt(h) == CHOOSE r \in holds : r.id = h
HoldPresent(h) == \E r \in holds : r.id = h
TxAt(t) == CHOOSE r \in transactions : r.id = t
\* the active rules of a day of the month, and those whose user has a default wallet
RulesOfDay(today) == {r \in recurring : r.is_active = 1 /\ r.day_of_month = today}
RulesWithWallet(today) == {r \in RulesOfDay(today) : get_default_wallet(r.user_id) # 0}
\* what a rule is to add to its user's default wallet
RuleAmount(r, ok) ==
    LET conv == convert_currency(r.amount, r.currency,
                                 wallets[get_default_wallet(r.user_id)].currency, ok)
    IN  IF r.type = "outcome" THEN -conv ELSE conv
RECURSIVE SumRuleAmounts(_, _)
SumRuleAmounts(rules, oks) ==
    IF rules = {} THEN 0
    ELSE LET r == CHOOSE x \in rules : TRUE
         IN  RuleAmount(r, oks[r.id]) + SumRuleAmounts(rules \ {r}, oks)
Owns(u, w) == WalletExists(w) /\ wallets[w].user_id = u

\* C1: every wallet's balance equals the sum of the signed amounts of the
\* transactions on it minus the amounts of the holds still sourced from it.
BalanceInvariant ==
    \A w \in WalletIds :
        wallets[w].balance = SumAmounts(TxOn(w)) - SumAmounts(HoldsOn(w))

\* C2: a transfer attempt, whether it succeeds, is rejected or fails part-way,
\* either writes both legs and both balance updates or changes neither the
\* transactions nor the wallets.
TransferAtomicity ==
    [][last'.op = "process_transfer" =>
       \A u \in Users, a \in Amounts, ok \in BOOLEAN, done \in 0..4 :
          process_transfer(u, a, ok, done) =>
              \/ /\ wallets' = wallets
                 /\ transactions' = transactions
              \/ LET td == user_data[u]
                     added == transactions' \ transactions
                 IN  /\ transactions \subseteq transactions'
                     /\ \E r1, r2 \in added :
                           /\ added = {r1, r2}
                           /\ r1 # r2
                           /\ r1.wallet_id = td.from /\ r1.amount = -a
                           /\ r2.wallet_id = td.to
                           /\ wallets'[td.from].balance = wallets[td.from].balance - a
                           /\ wallets'[td.to].balance = wallets[td.to].balance + r2.amount
      ]_vars

\* C2 witness: a transfer that passed every check failed part-way.
TransferFailedPartWay ==
    /\ last = [op |-> "process_transfer", res |-> "fault"]
    /\ \E u \in Users :
          /\ user_data[u].to # 0
          /\ wallets[user_data[u].from].balance >= 100

\* C3: with the session complete and the source wallet owned by the caller, a
\* transfer is refused for insufficient funds exactly when the unconverted
\* amount exceeds the balance the wallets table holds when the amount is
\* entered, whatever balance was captured when the source was selected; a
\* refused transfer changes no balance and no transaction row.
TransferInsufficientFunds ==
    [][last'.op = "process_transfer" =>
       \A u \in Users, a \in Amounts, ok \in BOOLEAN, done \in 0..4 :
          LET td == user_data[u]
          IN  ( /\ process_transfer(u, a, ok, done)
                /\ td.from # 0 /\ td.to # 0
                /\ Owns(u, td.from) )
              => IF a > wallets[td.from].balance
                 THEN /\ wallets' = wallets
                      /\ transactions' = transactions
                      /\ last'.res = IF a <= 0 THEN "InvalidAmount"
                                     ELSE "InsufficientFunds"
                 ELSE last'.res # "InsufficientFunds"
      ]_vars

\* C3 witness: a transfer was refused for a balance that is lower than the one
\* captured when the source wallet was selected.
TransferRefusedOnFreshBalance ==
    /\ last = [op |-> "process_transfer", res |-> "InsufficientFunds"]
    /\ \E u \in Users :
          /\ user_data[u].from # 0 /\ user_data[u].to # 0
          /\ user_data[u].from_balance >= 100
          /\ wallets[user_data[u].from].balance < 100

DeleteReversesBalance ==
    [][last' = [op |-> "delete_transaction", res |-> "ok"] =>
       \A u \in Users, t \in 1..MaxTx :
          ( /\ delete_transaction(u, t)
            /\ \E r \in transactions : r.id = t
            /\ TxAt(t).wallet_id # 0 )
          => LET w == TxAt(t).wallet_id
             IN  /\ wallets'[w].balance = wallets[w].balance - TxAt(t).amount
                 /\ transactions' = transactions \ {TxAt(t)}
      ]_vars

\* C6: removing a hold sourced from a wallet gives the amount back to the
\* wallet and records no transaction.
HoldRoundTrip ==
    [][last'.op = "remove_hold" =>
       \A u \in Users, h \in 1..MaxHolds :
          ( /\ remove_hold(u, h)
            /\ HoldPresent(h)
            /\ HoldAt(h).wallet_id # 0 )
          => LET w == HoldAt(h).wallet_id
             IN  /\ wallets'[w].balance = wallets[w].balance + HoldAt(h).amount
                 /\ transactions' = transactions
                 /\ holds' = holds \ {HoldAt(h)}
      ]_vars

\* C7: a hold from a selected wallet is created if and only if the caller owns
\* the wallet and 0 < amount <= balance; then one hold row with that amount, the
\* wallet's currency and the wallet id is added and the balance drops by the
\* amount; otherwise no hold is created and no balance changes.
CreateHoldIffFunds ==
    [][last'.op = "process_hold_from_wallet" =>
       \A u \in Users, w \in 1..MaxWallets, a \in Amounts :
          process_hold_from_wallet(u, w, a) =>
             IF Owns(u, w) /\ 0 < a /\ a <= wallets[w].balance
             THEN /\ last'.res = "ok"
                  /\ holds \subseteq holds'
                  /\ \E r \in holds' \ holds :
                        /\ holds' = holds \cup {r}
                        /\ r.amount = a /\ r.wallet_id = w /\ r.user_id = u
                        /\ r.currency = wallets[w].currency
                  /\ wallets'[w].balance = wallets[w].balance - a
                  /\ \A x \in WalletIds : x # w => wallets'[x] = wallets[x]
             ELSE /\ last'.res # "ok"
                  /\ holds' = holds
                  /\ wallets' = wallets
      ]_vars

\* C7 witness: a hold of the whole balance was created from a wallet.
HoldOfWholeBalance ==
    /\ last = [op |-> "process_hold_from_wallet", res |-> "ok"]
    /\ \E r \in holds :
          /\ r.wallet_id # 0 /\ r.amount = 100
          /\ wallets[r.wallet_id].balance = 0
          /\ wallets[r.wallet_id].currency = "EUR"

\* C8: resolving a wallet-sourced hold to outcome removes the hold, records
\* one outcome transaction of minus the hold's amount and leaves the source
\* wallet's balance as it was before the resolution.
ResolveToOutcome ==
    [][last'.op = "transfer_hold" =>
       \A u \in Users, h \in 1..MaxHolds :
          ( /\ transfer_hold(u, "outcome", h)
            /\ HoldPresent(h)
            /\ HoldAt(h).wallet_id # 0 )
          => /\ holds' = holds \ {HoldAt(h)}
             /\ \E r \in transactions' \ transactions :
                   /\ transactions' = transactions \cup {r}
                   /\ r.type = "outcome" /\ r.amount = -HoldAt(h).amount
             /\ wallets'[HoldAt(h).wallet_id].balance
                   = wallets[HoldAt(h).wallet_id].balance
      ]_vars

\* C9: resolving a hold to income, with or without a source wallet, creates
\* one income transaction of the hold's amount in the hold's currency and
\* deletes the hold.
ResolveToIncome ==
    [][last'.op = "transfer_hold" =>
       \A u \in Users, h \in 1..MaxHolds :
          ( /\ transfer_hold(u, "income", h)
            /\ HoldPresent(h) )
          => /\ holds' = holds \ {HoldAt(h)}
             /\ \E r \in transactions' \ transactions :
                   /\ transactions' = transactions \cup {r}
                   /\ r.type = "income" /\ r.amount = HoldAt(h).amount
                   /\ r.currency = HoldAt(h).currency
      ]_vars

\* C10: a resolve, remove, rename or tag request that names the id of a hold
\* that is no longer in the store creates no transaction, changes no wallet and
\* creates no hold.
HoldGoneStaysGone ==
    [][last'.op \in {"transfer_hold", "remove_hold", "apply_tag", "save_hold_name"} =>
       \A u \in Users, h \in 1..MaxHolds :
          ( /\ ~HoldPresent(h)
            /\ \/ \E action \in HoldActions : transfer_hold(u, action, h)
               \/ remove_hold(u, h)
               \/ \E tag \in Tags : apply_tag(u, h, tag)
               \/ \E d \in Descriptions : save_hold_name(u, h, d) )
          => /\ transactions' = transactions
             /\ wallets' = wallets
             /\ holds' = holds
      ]_vars

\* C10 witness: a wallet-sourced hold was created and removed (its amount is
\* missing from the wallet), and a tag request for its id came afterwards.
TagAfterRemoval ==
    /\ last = [op |-> "apply_tag", res |-> "fault"]
    /\ holds = {}
    /\ \E w \in WalletIds : wallets[w].balance < SumAmounts(TxOn(w))

\* C11: deleting a transaction id that is not in the store, or whose row
\* belongs to another user, is answered not found and leaves every transaction
\* row and every wallet as it was.
DeleteNotFound ==
    [][last'.op = "delete_transaction" =>
       \A u \in Users, t \in 1..MaxTx :
          ( /\ delete_transaction(u, t)
            /\ \A r \in transactions : r.id = t => r.user_id # u )
          => /\ last'.res = "NotFound"
             /\ transactions' = transactions
             /\ wallets' = wallets
      ]_vars

\* C11 witness: a deletion was answered not found while every id the request
\* can name is in the store: the row named belongs to another user.
DeleteOfForeignRow ==
    /\ last = [op |-> "delete_transaction", res |-> "NotFound"]
    /\ {r.id : r \in transactions} = 1..MaxTx

\* C12: each user has at most one wallet flagged default, and exactly one as
\* soon as the user has a wallet.
DefaultWalletInvariant ==
    \A u \in Users :
        LET mine == {w \in WalletIds : wallets[w].user_id = u}
            defaults == {w \in mine : wallets[w].is_default = 1}
        IN  /\ Cardinality(defaults) <= 1
            /\ mine # {} => Cardinality(defaults) = 1

\* C12 witness: a set-default request for a wallet of another user has just
\* been refused, and the default of a user with two wallets is the second one.
SetDefaultRefused ==
    /\ last.op = "handle_set_default" /\ last.res # "ok"
    /\ \E a, b \in WalletIds :
          /\ a < b /\ wallets[a].user_id = wallets[b].user_id
          /\ wallets[b].is_default = 1

\* C13: a created wallet is the default if and only if its user had no wallet
\* before; it starts with balance 0 and no existing wallet changes.
CreateWalletDefault ==
    [][last' = [op |-> "add_wallet", res |-> "ok"] =>
       \A u \in Users, c \in Currencies :
          add_wallet(u, c) =>
             LET had == \E w \in WalletIds : wallets[w].user_id = u
                 new == wallets'[Len(wallets')]
             IN  /\ Len(wallets') = Len(wallets) + 1
                 /\ \A w \in WalletIds : wallets'[w] = wallets[w]
                 /\ new.user_id = u /\ new.currency = c /\ new.balance = 0
                 /\ (new.is_default = 1) <=> ~had
      ]_vars

\* C13 witness: a second wallet was created for a user whose first wallet
\* holds money; the new one is not the default.
SecondWalletNotDefault ==
    /\ last = [op |-> "add_wallet", res |-> "ok"]
    /\ Len(wallets) >= 2
    /\ wallets[Len(wallets)].is_default = 0
    /\ \E w \in 1..(Len(wallets) - 1) :
          /\ wallets[w].user_id = wallets[Len(wallets)].user_id
          /\ wallets[w].balance > 0

\* C16: converting an amount from a currency to the same currency returns the
\* amount unchanged and asks the rate source nothing, so it also holds while
\* the rate source is failing.
ConversionIdentity ==
    ( /\ last.op = "convert_currency"
      /\ last.from_curr = last.to_curr )
    => /\ last.res = last.amount
       /\ ~last.lookup

\* C16 witness: a same-currency conversion of a positive amount was made
\* while the rate source was failing.
IdentityWhileFailing ==
    /\ last.op = "convert_currency"
    /\ last.from_curr = "EUR" /\ last.to_curr = "EUR"
    /\ ~last.ok /\ last.amount > 0

\* C17: when the rate lookup fails (the request fails, or a code that is
\* looked up is missing from the rate table) the conversion returns the
\* original amount.
ConversionFallback ==
    ( /\ last.op = "convert_currency"
      /\ last.lookup
      /\ \/ ~last.ok
         \/ last.from_curr # "USD" /\ ~Rated(last.from_curr)
         \/ last.to_curr # "USD" /\ ~Rated(last.to_curr) )
    => last.res = last.amount

\* C14: every transaction row that references a wallet carries the wallet's
\* currency; a recorded income or outcome entered in another currency is
\* converted first, and the one converted amount is both the amount of the row
\* (negated for an outcome) and the change of the balance.
RowsInWalletCurrency ==
    [][ /\ \A r \in transactions' :
              r.wallet_id # 0 => r.currency = wallets'[r.wallet_id].currency
        /\ (last'.op \in {"add_income", "add_outcome"} /\ last'.res = "ok") =>
             \E r \in transactions' \ transactions :
                /\ transactions' = transactions \cup {r}
                /\ r.currency = wallets[r.wallet_id].currency
                /\ wallets'[r.wallet_id].balance
                      = wallets[r.wallet_id].balance + r.amount
                /\ \A a \in Amounts, c \in CurrencyInputs, ok \in BOOLEAN :
                      LET w == r.wallet_id
                          wc == wallets[w].currency
                          entered == IF c \in Currencies THEN c ELSE wc
                          conv == convert_currency(a, entered, wc, ok)
                      IN  /\ add_income(r.user_id, w, a, c, ok) => r.amount = conv
                          /\ add_outcome(r.user_id, w, a, c, ok) => r.amount = -conv
      ]_vars

\* C14 witness: an income entered in USD was recorded on a EUR wallet with the
\* converted amount.
IncomeConverted ==
    /\ last = [op |-> "add_income", res |-> "ok"]
    /\ \E r \in transactions :
          /\ r.type = "income" /\ r.amount = 90 /\ r.currency = "EUR"
          /\ wallets[r.wallet_id].balance = 90

\* C15: every stored income has a strictly positive amount and every stored
\* outcome a strictly negative one.
SignInvariant ==
    \A r \in transactions :
        /\ r.type = "income" => r.amount > 0
        /\ r.type = "outcome" => r.amount < 0

\* C18: a tick records, for each active rule of today's day whose user has a
\* default wallet, one transaction on that wallet: the rule's amount converted
\* to the wallet's currency, negated for an outcome, in the wallet's currency;
\* each balance changes by exactly the signed amounts recorded on the wallet.
SchedulerMaterialization ==
    [][last'.op = "process_recurring_transactions" =>
       \A today \in Days, oks \in [1..MaxRules -> BOOLEAN] :
          process_recurring_transactions(today, oks) =>
             LET added == transactions' \ transactions
             IN  /\ transactions \subseteq transactions'
                 /\ Cardinality(added) = Cardinality(RulesWithWallet(today))
                 /\ \A r \in RulesWithWallet(today) :
                       \E t \in added :
                          /\ t.user_id = r.user_id /\ t.type = r.type
                          /\ t.wallet_id = get_default_wallet(r.user_id)
                          /\ t.currency = wallets[t.wallet_id].currency
                          /\ t.amount = RuleAmount(r, oks[r.id])
                 /\ \A w \in WalletIds :
                       wallets'[w].balance = wallets[w].balance
                          + SumRuleAmounts({r \in RulesWithWallet(today) :
                                              get_default_wallet(r.user_id) = w}, oks)
      ]_vars

\* C18 witness: an outcome rule of 100 USD was applied to a EUR default
\* wallet: a row of -90 EUR, and the balance 90 lower.
OutcomeRuleConverted ==
    /\ last.op = "process_recurring_transactions"
    /\ \E t \in transactions :
          /\ t.type = "outcome" /\ t.amount = -90 /\ t.currency = "EUR"
          /\ wallets[t.wallet_id].balance = -90
    /\ \E r \in recurring : r.type = "outcome" /\ r.currency = "USD" /\ r.amount = 100

\* C19: in a tick where a due rule is skipped because its user has no default
\* wallet, that rule writes no row, and every due rule whose user has a
\* default wallet is still applied, whatever their order.
SchedulerIsolation ==
    [][last'.op = "process_recurring_transactions" =>
       \A today \in Days, oks \in [1..MaxRules -> BOOLEAN] :
          ( /\ process_recurring_transactions(today, oks)
            /\ RulesOfDay(today) # RulesWithWallet(today) )
          => LET added == transactions' \ transactions
             IN  /\ last'.res = "skipped"
                 /\ \A t \in added : get_default_wallet(t.user_id) # 0
                 /\ \A r \in RulesWithWallet(today) :
                       \E t \in added : t.user_id = r.user_id /\ t.type = r.type
                 /\ Cardinality(added) = Cardinality(RulesWithWallet(today))
                 /\ \A w \in WalletIds :
                       (\A r \in RulesWithWallet(today) :
                            get_default_wallet(r.user_id) # w)
                       => wallets'[w] = wallets[w]
      ]_vars

\* C19 witness: the first rule of the day belongs to a user without a wallet,
\* the second to a user with one, and the tick has recorded the second.
LaterRuleApplied ==
    /\ last = [op |-> "process_recurring_transactions", res |-> "skipped"]
    /\ Cardinality(transactions) = 1
    /\ \E r1, r2 \in recurring :
          /\ r1.id < r2.id /\ r1.day_of_month = r2.day_of_month
          /\ get_default_wallet(r1.user_id) = 0
          /\ get_default_wallet(r2.user_id) # 0
          /\ \E t \in transactions : t.user_id = r2.user_id

\* C20: a tick leaves the rules as they are and keeps no mark of what it has
\* applied: it records a row for every matching rule even when rows of an
\* earlier tick of these rules are in the store, and the same rules match the
\* next tick of that day.
TickNotIdempotent ==
    [][last'.op = "process_recurring_transactions" =>
       \A today \in Days, oks \in [1..MaxRules -> BOOLEAN] :
          process_recurring_transactions(today, oks) =>
             /\ recurring' = recurring
             /\ RulesWithWallet(today)' = RulesWithWallet(today)
             /\ Cardinality(transactions') =
                   Cardinality(transactions) + Cardinality(RulesWithWallet(today))
      ]_vars

\* C20 witness: the only rule in the store was applied twice: two rows, and
\* the default wallet changed by twice the rule's amount.
RuleAppliedTwice ==
    /\ last.op = "process_recurring_transactions"
    /\ Cardinality(recurring) = 1
    /\ Cardinality(transactions) = 2
    /\ \E w \in WalletIds : wallets[w].balance \in {200, -200}

\* C21: there is at most one budget row per user, category and period; setting
\* a budget leaves one row for the period with the amount just set and leaves
\* the budgets of other users, categories and periods as they were.
BudgetUniqueness ==
    [][ /\ \A b1, b2 \in budgets' :
              ( /\ b1.user_id = b2.user_id /\ b1.category_id = b2.category_id
                /\ b1.month = b2.month ) => b1 = b2
        /\ last' = [op |-> "save_budget", res |-> "ok"] =>
             \A u \in Users, category \in Categories, amount \in BudgetAmounts :
                save_budget(u, category, amount) =>
                   /\ \E b \in budgets' :
                         /\ b.user_id = u /\ b.category_id = category /\ b.month = now
                         /\ b.amount = amount
                   /\ \A b \in budgets :
                         ~(b.user_id = u /\ b.category_id = category /\ b.month = now)
                         => b \in budgets'
                   /\ \A b \in budgets' :
                         ~(b.user_id = u /\ b.category_id = category /\ b.month = now)
                         => b \in budgets
      ]_vars

\* C21 witness: a budget of 100 was set again to 200 while another budget of
\* the same user is in the store.
BudgetReplaced ==
    /\ last = [op |-> "save_budget", res |-> "ok"]
    /\ \E b1, b2 \in budgets :
          /\ b1.user_id = b2.user_id /\ b1.category_id # b2.category_id
          /\ b1.month = b2.month
          /\ b1.id < b2.id /\ b2.amount = 200 /\ b2.id > Cardinality(budgets)

\* C22: every line of the weekly report shows as spent the sign-flipped sum of
\* the outcome transactions of the budget's own user in the budget's category
\* and the current month.
ReportOwnSpending ==
    last.op = "notify_budget_updates" =>
        \A b \in {x \in budgets : x.month = now} :
            \E line \in last.report :
                /\ line.user_id = b.user_id /\ line.category = b.category_id
                /\ line.spent = -SumAmounts({t \in JoinedTransactions(b) :
                                   t.type = "outcome" /\ t.user_id = b.user_id})

\* C23: a hold removal, a tagging or a rule removal invoked by user u leaves
\* every hold and every recurring rule of the other users as it was.
OwnershipIsolation ==
    [][ \A u \in Users :
          ( \/ \E h \in 1..MaxHolds : remove_hold(u, h)
            \/ \E h \in 1..MaxHolds : apply_tag(u, h, "REFUND")
            \/ \E r \in 1..MaxRules : remove_recurring(u, r) )
          => /\ \A x \in holds : x.user_id # u => x \in holds'
             /\ \A x \in recurring : x.user_id # u => x \in recurring'
      ]_vars

\* C29: the text of an edit of rule r changes the amount and the day of rule
\* r in place and leaves the number of rules and the other rules as they were.
EditInPlace ==
    [][ \A u \in Callers, r \in 1..MaxRules, type \in RuleTypes \cup {NoRow},
           day \in Days :
          recurring_text(u, r, type, 200, day) =>
             recurring' = {IF x.id = r
                           THEN [x EXCEPT !.amount = 200, !.day_of_month = day]
                           ELSE x : x \in recurring}
      ]_vars

NoUnhandledFault ==
    ~(last.op \in {"transfer_hold", "apply_tag"} /\ last.res = "fault")

\* C27: with a rate table that carries both codes, converting between two
\* different currencies gives amount / rate[from] * rate[to] to the nearest
\* cent, rate[USD] being 1, also when from or to is USD and the code skips
\* that step.
ConversionThroughBase ==
    ( /\ last.op = "convert_currency"
      /\ last.from_curr # last.to_curr
      /\ last.ok /\ Rated(last.from_curr) /\ Rated(last.to_curr) )
    => LET n == last.amount * RateDen[last.from_curr] * RateNum[last.to_curr]
           d == RateNum[last.from_curr] * RateDen[last.to_curr]
           e == last.res * d - n
       IN  2 * (IF e < 0 THEN -e ELSE e) <= d

\* C27 witness: an amount in USD was converted to CHF and rounded up to the
\* next cent.
ConvertedFromBaseRoundedUp ==
    /\ last.op = "convert_currency"
    /\ last.from_curr = "USD" /\ last.to_curr = "CHF" /\ last.ok
    /\ last.res * 10 > last.amount * 7

\* C26: a tick that runs while a handler is suspended has the effect it has in
\* a serial execution: it writes one row for every due rule whose user has a
\* default wallet.
TickSerializable ==
    [][ last'.op = "process_recurring_transactions" =>
          \A today \in Days, oks \in [1..MaxRules -> {TRUE}] :
             process_recurring_transactions(today, oks) =>
                Cardinality(transactions' \ transactions)
                   = Cardinality(RulesWithWallet(today))
      ]_vars

\* C28: every stored rule materializes in every month: whatever the length of
\* the month, one of its days is a day on which the tick finds the rule due.
DueEveryMonth ==
    \A r \in recurring : \A len \in MonthLengths :
        \E today \in 1..len : r \in DueRules(today)

\* C30: a tick leaves the recurring rules as they are; every row it adds
\* belongs to an active rule of today's day, it adds at most one row per such
\* rule and removes none; the only wallets it changes are default wallets of
\* users with an active rule of today's day.
SchedulerFrame ==
    [][ last'.op = "process_recurring_transactions" =>
          \A today \in Days, oks \in [1..MaxRules -> BOOLEAN] :
             process_recurring_transactions(today, oks) =>
                /\ recurring' = recurring
                /\ transactions \subseteq transactions'
                /\ Cardinality(transactions' \ transactions)
                      <= Cardinality(RulesOfDay(today))
                /\ \A t \in transactions' \ transactions :
                      \E r \in RulesOfDay(today) :
                         r.user_id = t.user_id /\ r.type = t.type
                /\ Len(wallets') = Len(wallets)
                /\ \A w \in WalletIds :
                      wallets'[w] # wallets[w] =>
                         /\ wallets[w].is_default = 1
                         /\ \E r \in RulesOfDay(today) : r.user_id = wallets[w].user_id
      ]_vars

\* C30 witness: a tick ran while the store held a rule of day 1 and a rule of
\* day 15 of users with a default wallet, and it wrote the row of one rule only.
TickSkippedOtherDay ==
    /\ last = [op |-> "process_recurring_transactions", res |-> "ok"]
    /\ Cardinality(transactions) = 1
    /\ \E r1, r2 \in recurring :
          /\ r1.day_of_month = 1 /\ r2.day_of_month = 15
          /\ get_default_wallet(r1.user_id) # 0
          /\ get_default_wallet(r2.user_id) # 0

\* C31: the weekly report changes no wallet, transaction, hold, recurring
\* rule, budget or settings row, whether the sending succeeds or fails, and a
\* failed sending to one user does not keep the report from the other users.
ReportReadOnly ==
    [][ last'.op = "notify_budget_updates" =>
          \A oks \in [Users -> BOOLEAN] :
             notify_budget_updates(oks) =>
                /\ UNCHANGED <<wallets, transactions, holds, recurring, budgets,
                               user_settings>>
                /\ \A b \in budgets :
                      (b.month = now /\ oks[b.user_id]) =>
                         b.user_id \in last'.delivered
      ]_vars

\* C31 witness: two users have a budget of the month; sending to user 1
\* failed and user 2 received the report.
ReportAfterFailure ==
    /\ last.op = "notify_budget_updates"
    /\ last.delivered = {2}
    /\ \E b \in budgets : b.user_id = 1 /\ b.month = now
    /\ transactions # {}

\* C32: renaming or tagging a hold changes only the description (rename) or
\* the tags (tag) of that hold: the amount, currency, source wallet and owner
\* of every hold, every wallet and every transaction row stay as they were.
HoldMetadataOnly ==
    [][ last'.op \in {"apply_tag", "save_hold_name"} =>
          /\ wallets' = wallets
          /\ transactions' = transactions
          /\ {r.id : r \in holds'} = {r.id : r \in holds}
          /\ \A r \in holds : \E x \in holds' :
                /\ x.id = r.id /\ x.user_id = r.user_id /\ x.amount = r.amount
                /\ x.currency = r.currency /\ x.wallet_id = r.wallet_id
                /\ last'.op = "apply_tag" => x.description = r.description
                /\ last'.op = "save_hold_name" => x.tags = r.tags
      ]_vars

\* C32 witness: a hold taken from a wallet carries a tag, and the wallet still
\* misses exactly the amount of the hold.
TaggedWalletHold ==
    /\ last = [op |-> "apply_tag", res |-> "ok"]
    /\ \E r \in holds :
          /\ r.tags # <<>> /\ r.wallet_id # 0 /\ r.amount > 0
          /\ wallets[r.wallet_id].balance + r.amount = SumAmounts(TxOn(r.wallet_id))

\* C33: every hold in the store has a strictly positive amount.
HoldAmountPositive == \A r \in holds : r.amount > 0

\* C34: the first /start of a user creates the user's settings row with USD; a
\* repeated /start leaves the row and the currency chosen since as they are;
\* setting the default currency sets the row of that user; neither changes
\* the row of another user.
SettingsRowPerUser ==
    [][ /\ last'.op = "start" =>
             \A u \in Users :
                start(u) =>
                   /\ user_settings'[u] =
                         IF user_settings[u] = NoRow THEN "USD" ELSE user_settings[u]
                   /\ \A v \in Users \ {u} : user_settings'[v] = user_settings[v]
        /\ last'.op = "set_currency" =>
             \A u \in Users, c \in Currencies :
                set_currency(u, c) =>
                   /\ user_settings'[u] = c
                   /\ \A v \in Users \ {u} : user_settings'[v] = user_settings[v]
      ]_vars

\* C34 witness: user 1 chose EUR and then sent /start again, while user 2
\* has the row of the first /start.
StartAfterCurrencyChosen ==
    /\ last = [op |-> "start", res |-> "ok"]
    /\ user_settings[1] = "EUR"
    /\ user_settings[2] = "USD"

NoOverdraw ==
    [][ last' \in {[op |-> "process_transfer", res |-> "ok"],
                   [op |-> "process_hold_from_wallet", res |-> "ok"]} =>
          \A w \in WalletIds :
             wallets'[w].balance < wallets[w].balance => wallets'[w].balance >= 0
      ]_vars

\* C36 witness: the source wallet was chosen for a transfer while it held 100,
\* a hold then took the 100, and the wallet is at 0.
HoldAfterTransferChosen ==
    /\ last = [op |-> "process_hold_from_wallet", res |-> "ok"]
    /\ user_data[1].from = 1 /\ user_data[1].from_balance = 100
    /\ wallets[1].balance = 0

\* C37: a successful transfer between wallets of one currency leaves the sum
\* of the two balances as it was and writes two legs whose amounts sum to 0;
\* a transfer between currencies whose rate lookup fails (the request fails
\* or a code is missing from the rate table) credits the target with the
\* unconverted amount.
ValueConservation ==
    [][ last' = [op |-> "process_transfer", res |-> "ok"] =>
          \A u \in Callers, ok \in BOOLEAN :
             process_transfer(u, 100, ok, 4) =>
                LET A == user_data[u].from
                    B == user_data[u].to
                    from_curr == wallets[A].currency
                    to_curr == wallets[B].currency
                    failed == \/ ~ok
                              \/ from_curr # "USD" /\ ~Rated(from_curr)
                              \/ to_curr # "USD" /\ ~Rated(to_curr)
                IN  /\ from_curr = to_curr =>
                          /\ wallets'[A].balance + wallets'[B].balance
                                = wallets[A].balance + wallets[B].balance
                          /\ SumAmounts(transactions' \ transactions) = 0
                    /\ (from_curr # to_curr /\ failed) =>
                          wallets'[B].balance = wallets[B].balance + 100
      ]_vars

\* C38: in each input state the Cancel button is handled by cancel, the
\* conversation returns to MAIN_MENU and nothing is written to the store.
CancelReturnsToMenu ==
    [][ \A u \in Users, st \in InputStates, selected \in BOOLEAN :
          cancel_text(u, st, selected) =>
             /\ last'.op = "cancel"
             /\ last'.state = "MAIN_MENU"
             /\ UNCHANGED <<wallets, transactions, holds, recurring, user_settings,
                            budgets>>
      ]_vars

\* C39: applying to a hold a tag it already carries leaves its tags as they
\* are; applying a tag it does not carry appends the tag; so no tag occurs
\* twice and the tags stand in the order of their first application.
TagIdempotent ==
    [][ last'.op = "apply_tag" =>
          \A u \in Callers, h \in 1..MaxHolds, tag \in Tags :
             (HoldPresent(h) /\ apply_tag(u, h, tag)) =>
                \E x \in holds' :
                   /\ x.id = h
                   /\ x.tags = IF \E i \in 1..Len(HoldAt(h).tags) : HoldAt(h).tags[i] = tag
                               THEN HoldAt(h).tags
                               ELSE Append(HoldAt(h).tags, tag)
                   /\ \A i, j \in 1..Len(x.tags) : x.tags[i] = x.tags[j] => i = j
      ]_vars

\* C39 witness: REFUND, then SELL, then REFUND again were applied to a hold,
\* which carries the two tags in that order.
TagAppliedAgain ==
    /\ last = [op |-> "apply_tag", res |-> "exists"]
    /\ \E r \in holds : r.tags = <<"REFUND", "SELL">>

====
